---- MODULE Spec2Model ----
(***************************************************************************)
(* Model of uucore's mode parser (src/uucore/src/lib/features/mode.rs):    *)
(* parse_numeric, parse_symbolic with its scanners parse_levels, parse_op  *)
(* and parse_change, the dispatcher parse, and the umask query get_umask.  *)
(*                                                                         *)
(* A &str is a sequence of one-character strings (all inputs are ASCII, so *)
(* byte offsets and character counts agree).  A u32 is a natural number;   *)
(* the model only ever holds values below 2^31, and the u32 complement !b  *)
(* always occurs in the code as a & !b, which AndNot computes bit by bit.  *)
(***************************************************************************)
EXTENDS Integers, Sequences, FiniteSets, TLC

VARIABLES
    api,              \* the public function being called
    current_mode,     \* argument current_mode (fperm of parse_numeric / parse_symbolic)
    mode,             \* argument mode: Option<&str>
    considering_dir,  \* argument considering_dir
    umask,            \* argument umask: Option<u32>
    pc,               \* position of the call
    new_mode,         \* parse: local new_mode
    parts,            \* parse: what mode_string.split(',') has still to yield
    mode_part,        \* parse: the trimmed clause being processed
    mask,             \* get_umask called from parse: local mask
    ret,              \* the returned Result<u32, String>
    process_umask,    \* the process-wide file-creation mask (kernel state)
    umask_syscalls,   \* number of umask(2) calls the call has made
    tpc,              \* concurrent get_umask callers: position of each thread
    tmask,            \* concurrent get_umask callers: local mask of each thread
    tcalls,           \* concurrent get_umask callers: calls each thread has started
    tret,             \* concurrent get_umask callers: value last returned to each thread
    umask_before      \* the process umask before the first call began

vars == <<api, current_mode, mode, considering_dir, umask, pc, new_mode, parts,
          mode_part, mask, ret, process_umask, umask_syscalls,
          tpc, tmask, tcalls, tret, umask_before>>

callVars == <<api, current_mode, mode, considering_dir, umask>>
threadVars == <<tpc, tmask, tcalls, tret, umask_before>>

(***************************************************************************)
(* Bounds of the model.                                                    *)
(***************************************************************************)
MaxDigits == 5      \* longest digit run of a numeric clause
MaxGroups == 2      \* most operator+letters groups of a symbolic clause
MaxParts == 2       \* most comma-separated parts of a mode expression
MaxThreads == 2     \* concurrent callers of get_umask
MaxCalls == 2       \* get_umask calls per thread

(***************************************************************************)
(* u32 arithmetic.                                                         *)
(***************************************************************************)
RECURSIVE And(_, _)
And(a, b) ==
    IF a = 0 \/ b = 0 THEN 0
    ELSE (a % 2) * (b % 2) + 2 * And(a \div 2, b \div 2)

RECURSIVE Or(_, _)
Or(a, b) ==
    IF a = 0 THEN b
    ELSE IF b = 0 THEN a
    ELSE (IF a % 2 = 1 \/ b % 2 = 1 THEN 1 ELSE 0) + 2 * Or(a \div 2, b \div 2)

\* a & !b
RECURSIVE AndNot(_, _)
AndNot(a, b) ==
    IF a = 0 THEN 0
    ELSE IF b = 0 THEN a
    ELSE (a % 2) * (1 - (b % 2)) + 2 * AndNot(a \div 2, b \div 2)

\* a << n and a >> n on u32 (bits shifted past bit 31 are lost)
Shl(a, n) == (a % (2 ^ (32 - n))) * (2 ^ n)
Shr(a, n) == a \div (2 ^ n)

(***************************************************************************)
(* Option and Result values.                                               *)
(***************************************************************************)
None == [some |-> FALSE, v |-> 0]
Some(x) == [some |-> TRUE, v |-> x]
NoMode == [some |-> FALSE, v |-> <<>>]

\* Ok(val); Err(String): the message is kept as its kind, the character it
\* quotes ({ch}), the number it quotes ({change}) and the text it quotes ({mode}).
Ok(val) == [ok |-> TRUE, val |-> val, kind |-> "", ch |-> "", num |-> 0, text |-> <<>>]
Err(kind, ch, num, text) ==
    [ok |-> FALSE, val |-> 0, kind |-> kind, ch |-> ch, num |-> num, text |-> text]
NoResult == Err("pending", "", 0, <<>>)

(***************************************************************************)
(* str helpers.                                                            *)
(***************************************************************************)
WhiteSpace == {" ", "\t", "\n", "\r"}
AsciiDigits == {"0", "1", "2", "3", "4", "5", "6", "7", "8", "9"}

\* s[pos..] with pos counted from 0
From(s, pos) == SubSeq(s, pos + 1, Len(s))

RECURSIVE trim_start(_)
trim_start(s) ==
    IF s # <<>> /\ Head(s) \in WhiteSpace THEN trim_start(Tail(s)) ELSE s

RECURSIVE trim_end(_)
trim_end(s) ==
    IF s # <<>> /\ s[Len(s)] \in WhiteSpace THEN trim_end(SubSeq(s, 1, Len(s) - 1)) ELSE s

trim(s) == trim_end(trim_start(s))

\* mode_string.split(','): the parts between the commas, empty parts included
RECURSIVE split_from(_, _)
split_from(s, cur) ==
    IF s = <<>> THEN <<cur>>
    ELSE IF Head(s) = "," THEN <<cur>> \o split_from(Tail(s), <<>>)
    ELSE split_from(Tail(s), Append(cur, Head(s)))

split(s) == split_from(s, <<>>)

\* mode_part.chars().any(|c| c.is_ascii_digit())
any_ascii_digit(s) == \E i \in 1..Len(s) : s[i] \in AsciiDigits

OctalValue(c) ==
    CASE c = "0" -> 0 [] c = "1" -> 1 [] c = "2" -> 2 [] c = "3" -> 3
      [] c = "4" -> 4 [] c = "5" -> 5 [] c = "6" -> 6 [] c = "7" -> 7
      [] OTHER -> -1

\* u32::from_str_radix(src, 8): one leading '+' is a sign, a lone sign or an
\* empty string is an error, and the digits are folded left to right with
\* checked arithmetic (acc * 8 overflows a u32 exactly when acc >= 2^29).
RECURSIVE from_digits(_, _)
from_digits(s, acc) ==
    IF s = <<>> THEN Ok(acc)
    ELSE IF OctalValue(Head(s)) < 0
         THEN Err("invalid digit found in string", "", 0, <<>>)
    ELSE IF acc >= 2 ^ 29
         THEN Err("number too large to fit in target type", "", 0, <<>>)
    ELSE from_digits(Tail(s), acc * 8 + OctalValue(Head(s)))

from_str_radix(src) ==
    IF src = <<>> THEN Err("cannot parse integer from empty string", "", 0, <<>>)
    ELSE IF Len(src) = 1 /\ Head(src) \in {"+", "-"}
         THEN Err("invalid digit found in string", "", 0, <<>>)
    ELSE IF Head(src) = "+" THEN from_digits(Tail(src), 0)
    ELSE from_digits(src, 0)

(***************************************************************************)
(* parse_op                                                                *)
(***************************************************************************)
Operators == {"+", "-", "="}

\* Ok((ch, 1)) is [ok |-> TRUE, ch |-> ch, val |-> 1, ...]
parse_op(m) ==
    IF m = <<>> THEN Err("unexpected end of mode", "", 0, <<>>)
    ELSE IF Head(m) \in Operators THEN [Ok(1) EXCEPT !.ch = Head(m)]
    ELSE Err("invalid operator", Head(m), 0, <<>>)

(***************************************************************************)
(* parse_numeric                                                           *)
(***************************************************************************)
MODE_MAX == 4095        \* 0o7777
SETID_BITS == 3072      \* 0o4000 | 0o2000

too_large_lax(change) == change > \o77777

\* change > 0o7777
too_large(change) == change > MODE_MAX

keeps_setid_lax(op, dir, len) == op = "" /\ dir /\ len <= 5

\* None if considering_dir && mode.len() < 5   (op = "" stands for None)
keeps_setid(op, dir, len) == op = "" /\ dir /\ len < 5

numeric_result(op, fperm, change, dir, len) ==
    CASE op = "+" -> Or(fperm, change)
      [] op = "-" -> AndNot(fperm, change)
      [] keeps_setid(op, dir, len) -> Or(change, And(fperm, SETID_BITS))
      [] OTHER -> change

parse_numeric(fperm, m, dir) ==
    LET o == parse_op(m)
        op == IF o.ok THEN o.ch ELSE ""
        pos == IF o.ok THEN o.val ELSE 0
        digits == trim(From(m, pos))
        change == IF digits = <<>> THEN Ok(0) ELSE from_str_radix(digits)
    IN  IF ~change.ok THEN change
        ELSE IF too_large(change.val)
             THEN Err("mode is too large", "", change.val, <<>>)
        ELSE Ok(numeric_result(op, fperm, change.val, dir, Len(digits)))

(***************************************************************************)
(* parse_levels                                                            *)
(***************************************************************************)
level_mask(ch) ==
    CASE ch = "u" -> \o4700
      [] ch = "g" -> \o2070
      [] ch = "o" -> \o1007
      [] ch = "a" -> \o7777
      [] OTHER -> 0

RECURSIVE parse_levels_from(_, _, _)
parse_levels_from(m, msk, pos) ==
    IF m # <<>> /\ Head(m) \in {"u", "g", "o", "a"}
    THEN parse_levels_from(Tail(m), Or(msk, level_mask(Head(m))), pos + 1)
    ELSE [mask |-> msk, pos |-> pos]

parse_levels(m) ==
    LET r == parse_levels_from(m, 0, 0)
    IN  IF r.pos = 0 THEN [mask |-> \o7777, pos |-> 0] ELSE r

(***************************************************************************)
(* parse_change                                                            *)
(***************************************************************************)
PermLetters == {"r", "w", "x", "X", "s", "t"}
CopyLetters == {"u", "g", "o"}

conditional_exec_dir_only(fperm, dir) == IF dir THEN \o111 ELSE 0

\* 'X': if considering_dir || (fperm & 0o0111) != 0 { srwx |= 0o111 }
conditional_exec(fperm, dir) ==
    IF dir \/ And(fperm, \o111) # 0 THEN \o111 ELSE 0

letter_bits(ch, fperm, dir) ==
    CASE ch = "r" -> \o444
      [] ch = "w" -> \o222
      [] ch = "x" -> \o111
      [] ch = "X" -> conditional_exec(fperm, dir)
      [] ch = "s" -> \o6000
      [] ch = "t" -> \o1000

copy_bits(ch, fperm) ==
    CASE ch = "u" -> Or(Or(And(fperm, \o700), And(Shr(fperm, 3), \o070)),
                        And(Shr(fperm, 6), \o007))
      [] ch = "g" -> Or(Or(And(Shl(fperm, 3), \o700), And(fperm, \o070)),
                        And(Shr(fperm, 3), \o007))
      [] ch = "o" -> Or(Or(And(Shl(fperm, 6), \o700), And(Shl(fperm, 3), \o070)),
                        And(fperm, \o007))

copy_pos_consumed(pos) == pos + 1

\* a copy letter: if pos != 0 { break; } pos = 1; break;
copy_pos(pos) == IF pos # 0 THEN pos ELSE 1

RECURSIVE parse_change_from(_, _, _, _, _)
parse_change_from(m, srwx, pos, fperm, dir) ==
    IF m = <<>> THEN [srwx |-> srwx, pos |-> pos]
    ELSE IF Head(m) \in PermLetters
         THEN parse_change_from(Tail(m), Or(srwx, letter_bits(Head(m), fperm, dir)),
                                pos + 1, fperm, dir)
    ELSE IF Head(m) \in CopyLetters
         THEN [srwx |-> copy_bits(Head(m), fperm), pos |-> copy_pos(pos)]
    ELSE [srwx |-> srwx, pos |-> pos]

parse_change(m, fperm, dir) ==
    LET r == parse_change_from(m, 0, 0, fperm, dir)
    IN  IF r.pos = 0 THEN [srwx |-> 0, pos |-> 0] ELSE r

(***************************************************************************)
(* parse_symbolic                                                          *)
(***************************************************************************)
respect_umask_always(pos) == TRUE

\* let respect_umask = pos == 0;
respect_umask(pos) == pos = 0

apply_op_unmasked(op, fperm, srwx, msk, dir) ==
    CASE op = "+" -> Or(fperm, srwx)
      [] op = "-" -> AndNot(fperm, srwx)
      [] op = "=" -> IF dir THEN Or(srwx, And(fperm, SETID_BITS)) ELSE srwx

apply_op(op, fperm, srwx, msk, dir) ==
    CASE op = "+" -> Or(fperm, And(srwx, msk))
      [] op = "-" -> AndNot(fperm, And(srwx, msk))
      [] op = "=" ->
            LET kept == IF dir THEN Or(srwx, And(fperm, SETID_BITS)) ELSE srwx
            IN  Or(AndNot(fperm, msk), And(kept, msk))

\* the while loop: one operator+letters group per turn
RECURSIVE symbolic_groups(_, _, _, _, _, _)
symbolic_groups(fperm, m, msk, respect, um, dir) ==
    IF m = <<>> THEN Ok(fperm)
    ELSE LET o == parse_op(m)
         IN  IF ~o.ok THEN o
             ELSE LET m1 == From(m, o.val)
                      c == parse_change(m1, fperm, dir)
                      srwx == IF respect THEN AndNot(c.srwx, um) ELSE c.srwx
                  IN  symbolic_groups(apply_op(o.ch, fperm, srwx, msk, dir),
                                      From(m1, c.pos), msk, respect, um, dir)

parse_symbolic(fperm, m, um, dir) ==
    LET lv == parse_levels(m)
    IN  IF lv.pos = Len(m) THEN Err("invalid mode", "", 0, m)
        ELSE symbolic_groups(fperm, From(m, lv.pos), lv.mask, respect_umask(lv.pos),
                             um, dir)

(***************************************************************************)
(* get_umask: umask(2) swaps the process mask and returns the old one; the *)
(* kernel keeps only the low nine bits of what it is given.                *)
(***************************************************************************)
kernel_mask(m) == And(m, \o777)

\* umask.unwrap_or(...)
unwrap_or(opt, default) == IF opt.some THEN opt.v ELSE default

first_is_digit(part) == part # <<>> /\ Head(part) \in AsciiDigits

\* mode_part.chars().any(|c| c.is_ascii_digit())
is_numeric_part(part) == any_ascii_digit(part)

(***************************************************************************)
(* Inputs.                                                                 *)
(***************************************************************************)
Threads == 1..MaxThreads
IdleThreads ==
    /\ tpc = [t \in Threads |-> "idle"]
    /\ tmask = [t \in Threads |-> 0]
    /\ tcalls = [t \in Threads |-> 0]
    /\ tret = [t \in Threads |-> 0]

\* current permission values: none; setuid+setgid without execute; sticky with
\* three different triples; a st_mode with its file-type bits (above 0o7777)
PermPool == {0, \o6644, \o1751, \o7777, \o100644}
UmaskPool == {0, \o022, \o137}
ParsePermPool == {0, \o6644, \o100644}
ParseUmaskPool == {0, \o022}
ProcessUmaskPool == {\o022, \o077}

StringsUpTo(alphabet, n) == UNION {[1..k -> alphabet] : k \in 0..n}

\* numeric clauses: an optional operator, then a digit run, bare or with one
\* stray character before or after it
NumDigits == {"0", "1", "6", "7"}
MaxStrayDigits == 2
NumericPool ==
    LET ops == {<<>>, <<"+">>, <<"-">>, <<"=">>}
        before == {<<"+">>, <<" ">>, <<"-">>, <<"=">>}
        after == {<<"8">>, <<" ">>, <<"u">>, <<"+">>}
    IN  {op \o d : op \in ops, d \in StringsUpTo(NumDigits, MaxDigits)}
        \cup {op \o b \o d : op \in ops, b \in before,
                             d \in StringsUpTo(NumDigits, MaxStrayDigits)}
        \cup {op \o d \o a : op \in ops, a \in after,
                             d \in StringsUpTo(NumDigits, MaxStrayDigits)}

\* symbolic clauses: a who-level, then up to MaxGroups operator+letters groups
WhoPool == {<<>>, <<"u">>, <<"g">>, <<"o">>, <<"a">>, <<"u", "g">>, <<"g", "o">>,
            <<"o", "u", "o">>, <<"g", "a">>}
RunPool == {<<>>, <<"r">>, <<"w">>, <<"x">>, <<"X">>, <<"s">>, <<"t">>,
            <<"u">>, <<"g">>, <<"o">>, <<"r", "w", "x">>, <<"r", "X">>,
            <<"s", "t">>, <<"w", "X", "t">>, <<"r", "w", "o">>, <<"x", "u">>,
            <<"o", "u">>, <<"*">>, <<"r", "7">>}
FirstGroups == {<<op>> \o run : op \in Operators, run \in RunPool}
MoreGroups == {<<"+", "X">>, <<"+", "x">>, <<"-", "x">>, <<"=", "g">>}

RECURSIVE GroupTails(_)
GroupTails(n) ==
    IF n = 0 THEN {<<>>}
    ELSE {<<>>} \cup {g \o rest : g \in MoreGroups, rest \in GroupTails(n - 1)}

SymbolicPool ==
    {who \o g \o rest : who \in WhoPool, g \in FirstGroups \cup {<<>>},
                        rest \in IF MaxGroups = 0 THEN {<<>>}
                                 ELSE GroupTails(MaxGroups - 1)}

\* mode expressions: up to MaxParts parts joined by commas
PartPool == {<<>>, <<" ">>, <<"6", "4", "4">>, <<"-", "4">>, <<"u", "+", "x">>,
             <<" ", "g", "+", "w", " ">>, <<"+", "w">>, <<"a", "+", "X">>,
             <<"u", "*", "r", "w">>, <<"1", "0", "0", "0", "0">>, <<"+", "1", "0", "0">>,
             <<"g", "=", "u", "-", "w">>}

RECURSIVE Joined(_)
Joined(n) ==
    IF n <= 1 THEN PartPool
    ELSE Joined(n - 1) \cup {e \o <<",">> \o part : e \in Joined(n - 1), part \in PartPool}

ExpressionPool == Joined(MaxParts)

(***************************************************************************)
(* Calls of parse_numeric and parse_symbolic.                              *)
(***************************************************************************)
NoLocals ==
    /\ new_mode = 0
    /\ parts = <<>>
    /\ mode_part = <<>>
    /\ mask = 0
    /\ ret = NoResult
    /\ umask_syscalls = 0

InitNumeric ==
    /\ api = "parse_numeric"
    /\ pc = "numeric_call"
    /\ current_mode \in PermPool
    /\ mode \in {Some(m) : m \in NumericPool}
    /\ considering_dir \in BOOLEAN
    /\ umask = None
    /\ process_umask \in {\o022}
    /\ umask_before = process_umask
    /\ NoLocals
    /\ IdleThreads

numeric_return ==
    /\ pc = "numeric_call"
    /\ ret' = parse_numeric(current_mode, mode.v, considering_dir)
    /\ pc' = "done"
    /\ UNCHANGED <<callVars, threadVars, new_mode, parts, mode_part, mask,
                   process_umask, umask_syscalls>>

NextNumeric == numeric_return

SpecNumeric == InitNumeric /\ [][NextNumeric]_vars

InitSymbolic ==
    /\ api = "parse_symbolic"
    /\ pc = "symbolic_call"
    /\ current_mode \in PermPool
    /\ mode \in {Some(m) : m \in SymbolicPool}
    /\ considering_dir \in BOOLEAN
    /\ umask \in {Some(u) : u \in UmaskPool}
    /\ process_umask \in {\o022}
    /\ umask_before = process_umask
    /\ NoLocals
    /\ IdleThreads

symbolic_return ==
    /\ pc = "symbolic_call"
    /\ ret' = parse_symbolic(current_mode, mode.v, umask.v, considering_dir)
    /\ pc' = "done"
    /\ UNCHANGED <<callVars, threadVars, new_mode, parts, mode_part, mask,
                   process_umask, umask_syscalls>>

NextSymbolic == symbolic_return

SpecSymbolic == InitSymbolic /\ [][NextSymbolic]_vars

(***************************************************************************)
(* parse: one action per step of the call.  get_umask is two system calls, *)
(* and umask.unwrap_or(get_umask()) evaluates its argument, the call of    *)
(* get_umask, before unwrap_or looks at umask.                             *)
(***************************************************************************)
InitParse ==
    /\ api = "parse"
    /\ pc = "parse_call"
    /\ current_mode \in ParsePermPool
    /\ mode \in {Some(e) : e \in ExpressionPool} \cup {NoMode}
    /\ considering_dir \in BOOLEAN
    /\ umask \in {Some(u) : u \in ParseUmaskPool} \cup {None}
    /\ process_umask \in ProcessUmaskPool
    /\ umask_before = process_umask
    /\ NoLocals
    /\ IdleThreads

\* Some(mode_string) => { let mut new_mode = current_mode; for mode_part in split(',')
parse_some ==
    /\ pc = "parse_call"
    /\ mode.some
    /\ new_mode' = current_mode
    /\ parts' = split(mode.v)
    /\ pc' = "loop"
    /\ UNCHANGED <<callVars, threadVars, mode_part, mask, ret, process_umask,
                   umask_syscalls>>

\* None => Ok(!umask.unwrap_or(get_umask()) & current_mode): get_umask comes first
parse_none ==
    /\ pc = "parse_call"
    /\ ~mode.some
    /\ pc' = "get_umask"
    /\ UNCHANGED <<callVars, threadVars, new_mode, parts, mode_part, mask, ret,
                   process_umask, umask_syscalls>>

\* if mode_part.is_empty() { continue; }
parse_skip_empty ==
    /\ pc = "loop"
    /\ parts # <<>>
    /\ trim(Head(parts)) = <<>>
    /\ parts' = Tail(parts)
    /\ UNCHANGED <<callVars, threadVars, pc, new_mode, mode_part, mask, ret,
                   process_umask, umask_syscalls>>

\* new_mode = parse_numeric(new_mode, mode_part, considering_dir)?
parse_numeric_part ==
    /\ pc = "loop"
    /\ parts # <<>>
    /\ trim(Head(parts)) # <<>>
    /\ is_numeric_part(trim(Head(parts)))
    /\ LET r == parse_numeric(new_mode, trim(Head(parts)), considering_dir)
       IN  IF r.ok
           THEN /\ new_mode' = r.val
                /\ pc' = "loop"
                /\ ret' = ret
           ELSE /\ new_mode' = new_mode
                /\ pc' = "done"
                /\ ret' = r
    /\ mode_part' = trim(Head(parts))
    /\ parts' = Tail(parts)
    /\ UNCHANGED <<callVars, threadVars, mask, process_umask, umask_syscalls>>

\* a symbolic part: the arguments of parse_symbolic are evaluated, get_umask() first
parse_symbolic_part ==
    /\ pc = "loop"
    /\ parts # <<>>
    /\ trim(Head(parts)) # <<>>
    /\ ~is_numeric_part(trim(Head(parts)))
    /\ mode_part' = trim(Head(parts))
    /\ parts' = Tail(parts)
    /\ pc' = "get_umask"
    /\ UNCHANGED <<callVars, threadVars, new_mode, mask, ret, process_umask,
                   umask_syscalls>>

\* let mask = unsafe { umask(0) };
get_umask_swap ==
    /\ pc = "get_umask"
    /\ mask' = process_umask
    /\ process_umask' = kernel_mask(0)
    /\ umask_syscalls' = umask_syscalls + 1
    /\ pc' = "get_umask_restore"
    /\ UNCHANGED <<callVars, threadVars, new_mode, parts, mode_part, ret>>

\* unsafe { umask(mask) }; return mask;
get_umask_restore ==
    /\ pc = "get_umask_restore"
    /\ process_umask' = kernel_mask(mask)
    /\ umask_syscalls' = umask_syscalls + 1
    /\ pc' = IF mode.some THEN "symbolic" ELSE "none"
    /\ UNCHANGED <<callVars, threadVars, new_mode, parts, mode_part, mask, ret>>

\* new_mode = parse_symbolic(new_mode, mode_part, umask.unwrap_or(..), considering_dir)?
parse_symbolic_call ==
    /\ pc = "symbolic"
    /\ LET r == parse_symbolic(new_mode, mode_part, unwrap_or(umask, mask),
                               considering_dir)
       IN  IF r.ok
           THEN /\ new_mode' = r.val
                /\ pc' = "loop"
                /\ ret' = ret
           ELSE /\ new_mode' = new_mode
                /\ pc' = "done"
                /\ ret' = r
    /\ UNCHANGED <<callVars, threadVars, parts, mode_part, mask, process_umask,
                   umask_syscalls>>

\* the loop has run out of parts: Ok(new_mode)
parse_return ==
    /\ pc = "loop"
    /\ parts = <<>>
    /\ ret' = Ok(new_mode)
    /\ pc' = "done"
    /\ UNCHANGED <<callVars, threadVars, new_mode, parts, mode_part, mask,
                   process_umask, umask_syscalls>>

\* None => Ok(!umask.unwrap_or(..) & current_mode)
parse_none_return ==
    /\ pc = "none"
    /\ ret' = Ok(AndNot(current_mode, unwrap_or(umask, mask)))
    /\ pc' = "done"
    /\ UNCHANGED <<callVars, threadVars, new_mode, parts, mode_part, mask,
                   process_umask, umask_syscalls>>

NextParse ==
    \/ parse_some
    \/ parse_none
    \/ parse_skip_empty
    \/ parse_numeric_part
    \/ parse_symbolic_part
    \/ get_umask_swap
    \/ get_umask_restore
    \/ parse_symbolic_call
    \/ parse_return
    \/ parse_none_return

SpecParse == InitParse /\ [][NextParse]_vars

(***************************************************************************)
(* The three public parsers together.                                      *)
(***************************************************************************)
Init == InitNumeric \/ InitSymbolic \/ InitParse

Next == NextNumeric \/ NextSymbolic \/ NextParse

Spec == Init /\ [][Next]_vars

(***************************************************************************)
(* get_umask called from several threads: each call is two system calls,   *)
(* and the calls of different threads interleave freely.                   *)
(***************************************************************************)
InitThreads ==
    /\ api = "get_umask"
    /\ pc = "threads"
    /\ current_mode = 0
    /\ mode = NoMode
    /\ considering_dir = FALSE
    /\ umask = None
    /\ process_umask \in ProcessUmaskPool \cup {\o002}
    /\ umask_before = process_umask
    /\ NoLocals
    /\ IdleThreads

\* let mask = unsafe { umask(0) };
thread_swap(t) ==
    /\ pc = "threads"
    /\ tpc[t] = "idle"
    /\ tcalls[t] < MaxCalls
    /\ tcalls' = [tcalls EXCEPT ![t] = @ + 1]
    /\ tmask' = [tmask EXCEPT ![t] = process_umask]
    /\ process_umask' = kernel_mask(0)
    /\ tpc' = [tpc EXCEPT ![t] = "swapped"]
    /\ UNCHANGED <<callVars, pc, new_mode, parts, mode_part, mask, ret,
                   umask_syscalls, tret, umask_before>>

\* unsafe { umask(mask) }; return mask;
thread_restore(t) ==
    /\ pc = "threads"
    /\ tpc[t] = "swapped"
    /\ process_umask' = kernel_mask(tmask[t])
    /\ tret' = [tret EXCEPT ![t] = tmask[t]]
    /\ tpc' = [tpc EXCEPT ![t] = "idle"]
    /\ UNCHANGED <<callVars, pc, new_mode, parts, mode_part, mask, ret,
                   umask_syscalls, tmask, tcalls, umask_before>>

NextThreads == \E t \in Threads : thread_swap(t) \/ thread_restore(t)

SpecThreads == InitThreads /\ [][NextThreads]_vars

(***************************************************************************)
(* Properties.                                                             *)
(***************************************************************************)
Returned == pc = "done"

\* C1 as stated: every successful parse, parse_numeric or parse_symbolic returns
\* at most 0o7777, whatever current permission value was passed.
C1_NeverAbove7777 == (Returned /\ ret.ok) => ret.val <= MODE_MAX

\* C1 amended: a successful parse, parse_numeric or parse_symbolic returns at most
\* 0o7777 whenever the current permission value passed is itself at most 0o7777.
C1_NeverAbove7777From12Bits ==
    (Returned /\ ret.ok /\ current_mode <= MODE_MAX) => ret.val <= MODE_MAX

C1_Witness ==
    /\ Returned /\ ret.ok /\ api = "parse"
    /\ current_mode = \o6644 /\ ret.val = \o6755

\* C2: once every started get_umask call has returned, the process umask is the
\* one it was before the first call began.
C2_UmaskRestored ==
    ((\A t \in Threads : tpc[t] = "idle") /\ (\E t \in Threads : tcalls[t] > 0))
        => process_umask = umask_before

\* C3: with a mode expression, parse queries (and so writes) the process umask
\* only when no explicit umask was passed and the clause being processed is a
\* symbolic clause without a who-level.
C3_QueryOnlyWhenNeeded ==
    (api = "parse" /\ mode.some /\ pc \in {"get_umask_restore", "symbolic"})
        => (~umask.some /\ mode_part # <<>> /\ Head(mode_part) \in Operators)

\* The trimmed, non-empty, comma-separated clauses of an expression, and the
\* fold of the two clause parsers over them that stops at the first error.
C4_Clauses(e) ==
    LET ps == split(e)
    IN  SelectSeq([i \in 1..Len(ps) |-> trim(ps[i])], LAMBDA c : c # <<>>)

RECURSIVE C4_Fold(_, _, _, _)
C4_Fold(x, clauses, um, dir) ==
    IF clauses = <<>> THEN Ok(x)
    ELSE LET c == Head(clauses)
             r == IF \E i \in 1..Len(c) : c[i] \in AsciiDigits
                  THEN parse_numeric(x, c, dir)
                  ELSE parse_symbolic(x, c, um, dir)
         IN  IF r.ok THEN C4_Fold(r.val, Tail(clauses), um, dir) ELSE r

RECURSIVE WhoLength(_)
WhoLength(m) ==
    IF m # <<>> /\ Head(m) \in {"u", "g", "o", "a"} THEN 1 + WhoLength(Tail(m)) ELSE 0

WhoLetters(m) == {m[i] : i \in 1..WhoLength(m)}

WhoMask(m) ==
    IF WhoLength(m) = 0 \/ "a" \in WhoLetters(m) THEN \o7777
    ELSE Or(Or(IF "u" \in WhoLetters(m) THEN \o4700 ELSE 0,
               IF "g" \in WhoLetters(m) THEN \o2070 ELSE 0),
            IF "o" \in WhoLetters(m) THEN \o1007 ELSE 0)

\* The last group of a clause: its operator is the last operator character.
LastOp(m) ==
    CHOOSE k \in 1..Len(m) :
        m[k] \in Operators /\ \A j \in (k + 1)..Len(m) : m[j] \notin Operators

\* The running value when the last group is parsed: the current value if only
\* the who-level precedes the group, else the result of the clause before it.
RunningValue(x, m, um, dir) ==
    IF LastOp(m) = WhoLength(m) + 1 THEN x
    ELSE parse_symbolic(x, SubSeq(m, 1, LastOp(m) - 1), um, dir).val

\* Applying operator op with letters bits srwx under who-mask msk.
Applied(op, v, srwx, msk, dir) ==
    CASE op = "+" -> Or(v, And(srwx, msk))
      [] op = "-" -> AndNot(v, And(srwx, msk))
      [] op = "=" -> Or(AndNot(v, msk),
                        And(IF dir THEN Or(srwx, And(v, \o6000)) ELSE srwx, msk))

\* umask values a result is compared under
C5_Umasks == {0, \o7777}

\* C5: without a who-level, the umask's bits are cleared from the letters of each
\* group before its operator is applied to the running value; with a who-level,
\* the result is the same for every umask.

C5_UmaskOnlyWithoutWho ==
    (api = "parse_symbolic" /\ Returned) =>
        LET m == mode.v
            x == current_mode
            dir == considering_dir
        IN  IF WhoLength(m) > 0
            THEN \A um \in C5_Umasks : parse_symbolic(x, m, um, dir) = ret
            ELSE ret.ok =>
                 LET v == RunningValue(x, m, umask.v, dir)
                     letters == parse_change(From(m, LastOp(m)), v, dir).srwx
                 IN  ret.val = Applied(m[LastOp(m)], v, AndNot(letters, umask.v),
                                       \o7777, dir)

C5_Witness ==
    /\ api = "parse_symbolic" /\ Returned
    /\ current_mode = 0 /\ mode = Some(<<"+", "w">>) /\ umask = Some(\o022)
    /\ ~considering_dir
    /\ ret = Ok(\o200)

\* The value of an octal digit string.
OctalDigits == {"0", "1", "2", "3", "4", "5", "6", "7"}

RECURSIVE DigitsValue(_)
DigitsValue(d) ==
    IF d = <<>> THEN 0
    ELSE 8 * DigitsValue(SubSeq(d, 1, Len(d) - 1)) + OctalValue(d[Len(d)])

C7_RejectsNonOctal ==
    (api = "parse_numeric" /\ Returned) =>
        LET m == mode.v
            d == IF m # <<>> /\ Head(m) \in Operators THEN Tail(m) ELSE m
        IN  (/\ \A i \in 1..Len(d) : d[i] \notin WhiteSpace
             /\ \/ \E i \in 1..Len(d) : d[i] \notin OctalDigits
                \/ DigitsValue(d) > MODE_MAX)
                => ~ret.ok

LastRun(m) == (LastOp(m) + 1)..Len(m)
Replaced(m, i, c) == SubSeq(m, 1, i - 1) \o c \o SubSeq(m, i + 1, Len(m))

\* C9: a group "+X" adds the execute bits 0o111 (within the who-mask, less the
\* umask when there is no who-level) only for a directory or when the running
\* value already has an execute bit, and a group "+x" always adds them; in any
\* last group, an X counts as an x in those two cases and as no letter otherwise.
C9_ConditionalExecute ==
    (api = "parse_symbolic" /\ Returned /\ ret.ok /\ Len(mode.v) >= 2) =>
        LET m == mode.v
            n == Len(m)
            v == RunningValue(current_mode, m, umask.v, considering_dir)
            exec == IF WhoLength(m) = 0 THEN AndNot(\o111, umask.v) ELSE \o111
            applies == considering_dir \/ And(v, \o111) # 0
        IN  /\ (m[n - 1] = "+" /\ m[n] = "X") =>
                    ret.val = IF applies THEN Or(v, And(exec, WhoMask(m))) ELSE v
            /\ (m[n - 1] = "+" /\ m[n] = "x") =>
                    ret.val = Or(v, And(exec, WhoMask(m)))
            /\ \A i \in LastRun(m) :
                    m[i] = "X" =>
                        ret = parse_symbolic(current_mode,
                                  Replaced(m, i, IF applies THEN <<"x">> ELSE <<>>),
                                  umask.v, considering_dir)

C9_Witness ==
    /\ api = "parse_symbolic" /\ Returned
    /\ current_mode = 0 /\ ~considering_dir /\ umask = Some(0)
    /\ mode = Some(<<"a", "+", "x", "+", "X">>)
    /\ ret = Ok(\o111)

\* A copy-letter after other permission letters of the same run.
LateCopyAt(m, j) ==
    /\ m[j] \in CopyLetters
    /\ \E i \in 1..(j - 2) :
          /\ m[i] \in Operators
          /\ \A k \in (i + 1)..(j - 1) : m[k] \in PermLetters

HasLateCopy(m) == \E j \in 1..Len(m) : LateCopyAt(m, j)

FirstLateCopy(m) ==
    CHOOSE j \in 1..Len(m) :
        LateCopyAt(m, j) /\ \A k \in 1..(j - 1) : ~LateCopyAt(m, k)

\* C10 as stated: the scan stops at the copy-letter without an error and the
\* copy-letter adds nothing, so the clause gives what the clause cut before the
\* copy-letter gives.
C10_LateCopyIgnored ==
    (api = "parse_symbolic" /\ Returned /\ HasLateCopy(mode.v)) =>
        LET cut == parse_symbolic(current_mode,
                                  SubSeq(mode.v, 1, FirstLateCopy(mode.v) - 1),
                                  umask.v, considering_dir)
        IN  cut.ok => ret = cut

\* C10 amended: the scan of the run stops before the copy-letter, which is then
\* read as the operator of the next group: parse_symbolic returns an error, the
\* invalid-operator error naming the copy-letter when all before it is well formed.
C10_LateCopyRejected ==
    (api = "parse_symbolic" /\ Returned /\ HasLateCopy(mode.v)) =>
        LET j == FirstLateCopy(mode.v)
            cut == parse_symbolic(current_mode, SubSeq(mode.v, 1, j - 1),
                                  umask.v, considering_dir)
        IN  /\ ~ret.ok
            /\ cut.ok => ret = Err("invalid operator", mode.v[j], 0, <<>>)

C10_Witness ==
    /\ api = "parse_symbolic" /\ Returned
    /\ mode = Some(<<"u", "+", "r", "w", "o">>)
    /\ ret = Err("invalid operator", "o", 0, <<>>)

====
